---- MODULE Spec2Model ----
(***************************************************************************)
(* Model of BankDataAnalyzer (src/app.py): the FDIC data acquisition       *)
(* (fetch_data) and the metric derivation engine (calculate_metrics).      *)
(*                                                                         *)
(* Python floats are modelled as exact rationals [n, d] in lowest terms.   *)
(* Python strings are modelled as tuples of one-character strings, so that *)
(* float(str), the '%Y%m%d' date parse and the string ordering used by     *)
(* sorted() are computed character by character.                           *)
(*                                                                         *)
(* A REPDTE, where a record has one, is a string of eight characters; the  *)
(* numbers of a record are JSON integers, strings, nulls or arrays.        *)
(***************************************************************************)
EXTENDS Integers, Sequences, FiniteSets, TLC

VARIABLES api, institutions_data, financials_data, dollar_format_metrics,
          metric_definitions, ret, dashboard

vars == <<api, institutions_data, financials_data, dollar_format_metrics,
          metric_definitions, ret, dashboard>>

(***************************************************************************)
(* Bounds of the model.                                                    *)
(***************************************************************************)
\* longest list of period records the API holds for the first institution
MaxLen == 14
\* longest list of period records the API holds for the second institution
MaxPeerLen == 1

(***************************************************************************)
(* Floats.                                                                 *)
(***************************************************************************)
Abs(x) == IF x < 0 THEN -x ELSE x

RECURSIVE GCD(_, _)
GCD(a, b) == IF b = 0 THEN a ELSE GCD(b, a % b)

\* the float n/d, d # 0, in lowest terms with a positive denominator
Float(n, d) ==
    LET g == GCD(Abs(n), Abs(d))
        s == IF d < 0 THEN -1 ELSE 1
    IN  [n |-> (s * n) \div g, d |-> (s * d) \div g]

F(i) == [n |-> i, d |-> 1]

FAdd(x, y) == Float(x.n * y.d + y.n * x.d, x.d * y.d)
FSub(x, y) == Float(x.n * y.d - y.n * x.d, x.d * y.d)
FMul(x, y) == Float(x.n * y.n, x.d * y.d)
\* x / y; Python raises ZeroDivisionError when y = 0, every call site guards y > 0
FDiv(x, y) == Float(x.n * y.d, x.d * y.n)
FGt(x, y) == x.n * y.d > y.n * x.d

\* Python's None as a cell of the table (a float cell is [n, d], d > 0)
NoneValue == [n |-> 0, d |-> 0]
IsNone(v) == v.d = 0

(***************************************************************************)
(* Raw JSON values.  A period record is a function from the keys it has   *)
(* to their values.                                                        *)
(***************************************************************************)
\* JSON null
Null == [k |-> "null", i |-> 0, s |-> <<>>]
\* a JSON number
Num(i) == [k |-> "num", i |-> i, s |-> <<>>]
\* a JSON string
Str(s) == [k |-> "str", i |-> 0, s |-> s]
\* a JSON array or object
Obj == [k |-> "obj", i |-> 0, s |-> <<>>]

\* dict.get(key): None when the key is absent
Get(financial, key) ==
    IF key \in DOMAIN financial THEN financial[key] ELSE Null

(***************************************************************************)
(* float(str)                                                              *)
(***************************************************************************)
Digits == <<"0", "1", "2", "3", "4", "5", "6", "7", "8", "9">>

IsDigit(c) == \E i \in 1..10 : Digits[i] = c
DigitVal(c) == (CHOOSE i \in 1..10 : Digits[i] = c) - 1

AllDigits(s) == \A i \in 1..Len(s) : IsDigit(s[i])

RECURSIVE DigitsVal(_)
DigitsVal(s) ==
    IF s = <<>> THEN 0
    ELSE 10 * DigitsVal(SubSeq(s, 1, Len(s) - 1)) + DigitVal(s[Len(s)])

RECURSIVE Pow10(_)
Pow10(k) == IF k = 0 THEN 1 ELSE 10 * Pow10(k - 1)

\* the unsigned part: digits, with at most one '.', and at least one digit
UnsignedOK(s) ==
    LET dots == {i \in 1..Len(s) : s[i] = "."}
    IN  /\ Cardinality(dots) <= 1
        /\ \A i \in 1..Len(s) : i \in dots \/ IsDigit(s[i])
        /\ Len(s) - Cardinality(dots) >= 1

UnsignedVal(s) ==
    LET dots == {i \in 1..Len(s) : s[i] = "."}
        p == IF dots = {} THEN Len(s) + 1 ELSE CHOOSE i \in dots : TRUE
        ip == SubSeq(s, 1, p - 1)
        fp == SubSeq(s, p + 1, Len(s))
    IN  Float(DigitsVal(ip) * Pow10(Len(fp)) + DigitsVal(fp), Pow10(Len(fp)))

HasSign(s) == s # <<>> /\ s[1] \in {"-", "+"}
Unsigned(s) == IF HasSign(s) THEN Tail(s) ELSE s

\* float(s) raises ValueError
FloatStrFails(s) == ~UnsignedOK(Unsigned(s))

FloatStr(s) ==
    LET v == UnsignedVal(Unsigned(s))
    IN  IF HasSign(s) /\ s[1] = "-" THEN FSub(F(0), v) ELSE v

(***************************************************************************)
(* safe_float                                                              *)
(***************************************************************************)
\* float(value) raises TypeError, which safe_float does not catch
SafeFloatRaises(value) == value.k = "obj"

safe_float(value) ==
    CASE value.k = "null" -> F(0)
      [] value.k = "num" -> F(value.i)
      [] value.k = "str" -> IF FloatStrFails(value.s) THEN F(0) ELSE FloatStr(value.s)

(***************************************************************************)
(* The field table of calculate_metrics: metric name, FDIC field code.     *)
(***************************************************************************)
BaseMetrics == <<
    <<"Total Assets", "ASSET">>,
    <<"Total Deposits", "DEP">>,
    <<"Total Loans and Leases", "LNLSGR">>,
    <<"Net Loans and Leases", "LNLSNET">>,
    <<"Total Securities", "SC">>,
    <<"Real Estate Loans", "LNRE">>,
    <<"Loans to Residential Properties", "LNRERES">>,
    <<"Multifamily", "LNREMULT">>,
    <<"Farmland Real Estate Loans", "LNREAG">>,
    <<"Loans to Nonresidential Properties", "LNRENRES">>,
    <<"Owner-Occupied Nonresidential Properties Loans", "LNRENROW">>,
    <<"Non-OOC Nonresidential Properties Loans", "LNRENROT">>,
    <<"RE Construction and Land Development", "LNRECONS">>,
    <<"1-4 Family Residential Construction and Land Development Loans", "LNRECNFM">>,
    <<"Other Construction, All Land Development and Other Land Loans", "LNRECNOT">>,
    <<"Commercial Real Estate Loans not Secured by Real Estate", "LNCOMRE">>,
    <<"Commercial and Industrial Loans", "LNCI">>,
    <<"Agriculture Loans", "LNAG">>,
    <<"Credit Cards", "LNCRCD">>,
    <<"Consumer Loans", "LNCONOTH">>,
    <<"Allowance for Credit Loss", "LNATRES">>,
    <<"Past Due 30-89 Days", "P3ASSET">>,
    <<"Past Due 90+ Days", "P9ASSET">>,
    <<"Tier 1 (Core) Capital", "RBCT1J">>,
    <<"Total Charge-Offs", "DRLNLS">>,
    <<"Total Recoveries", "CRLNLS">>,
    <<"Total Loans and Leases Net Charge-Offs Quarterly", "NTLNLSQ">>,
    <<"Net Income", "NETINC">>,
    <<"Common Equity Tier 1 Before Adjustments", "CT1BADJ">>,
    <<"Bank Equity Capital", "EQ">>,
    <<"Perpetual Preferred Stock", "EQPP">>,
    <<"Net Interest Margin", "NIMY">>,
    <<"Earning Assets / Total Assets", "ERNASTR">>,
    <<"Nonperforming Assets / Total Assets", "NPERFV">>,
    <<"Assets Past Due 30-89 Days / Total Assets", "P3ASSETR">>,
    <<"Assets Past Due 90+ Days / Total Assets", "P9ASSETR">>,
    <<"Net Charge-Offs / Total Loans & Leases", "NTLNLSR">>,
    <<"Earnings Coverage of Net Loan Charge-Offs", "IDERNCVR">>,
    <<"Loan and Lease Loss Provision to Net Charge-Offs", "ELNANTR">>,
    <<"Loss Allowance / Total Loans & Leases", "LNATRESR">>,
    <<"Loss Allowance to Noncurrent Loans and Leases", "LNRESNCR">>,
    <<"Noncurrent Loans / Total Loans", "NCLNLSR">>,
    <<"Net Loans and Leases to Deposits", "LNLSDEPR">>,
    <<"Net Loans and Leases to Assets", "LNLSNTV">>,
    <<"Return on Assets", "ROA">>,
    <<"Return on Equity", "ROE">>,
    <<"Leverage (Core Capital) Ratio", "RBC1AAJ">>,
    <<"Total Risk-Based Capital Ratio", "RBCRWAJ">>,
    <<"Efficiency Ratio", "EEFFR">>
>>

BaseNames == {BaseMetrics[j][1] : j \in 1..Len(BaseMetrics)}
\* metric name -> field code
CodeOf ==
    [name \in BaseNames |->
        BaseMetrics[CHOOSE j \in 1..Len(BaseMetrics) : BaseMetrics[j][1] = name][2]]
FieldCodes == {BaseMetrics[j][2] : j \in 1..Len(BaseMetrics)}

(***************************************************************************)
(* The catalog of __init__: the metrics formatted as dollars, and for each  *)
(* metric the classification its definition text opens with, as in         *)
(* "(YTD, $) The sum of all assets owned by the entity.".                  *)
(***************************************************************************)
DollarFormatMetrics == <<
    "Total Assets",
    "Total Deposits",
    "Total Loans and Leases",
    "Net Loans and Leases",
    "Total Securities",
    "Real Estate Loans",
    "Loans to Residential Properties",
    "Multifamily",
    "Farmland Real Estate Loans",
    "Loans to Nonresidential Properties",
    "Owner-Occupied Nonresidential Properties Loans",
    "Non-OOC Nonresidential Properties Loans",
    "RE Construction and Land Development",
    "1-4 Family Residential Construction and Land Development Loans",
    "Other Construction, All Land Development and Other Land Loans",
    "Commercial Real Estate Loans not Secured by Real Estate",
    "Commercial and Industrial Loans",
    "Agriculture Loans",
    "Credit Cards",
    "Consumer Loans",
    "Allowance for Credit Loss",
    "Past Due 30-89 Days",
    "Past Due 90+ Days",
    "Tier 1 (Core) Capital",
    "Total Charge-Offs",
    "Total Recoveries",
    "Net Income",
    "Total Loans and Leases Net Charge-Offs Quarterly",
    "Common Equity Tier 1 Before Adjustments",
    "Bank Equity Capital",
    "CECL Transition Amount",
    "Perpetual Preferred Stock"
>>

\* metric name, the parenthesis its definition opens with
DefinitionTexts == <<
    <<"Total Assets", "(YTD, $)">>,
    <<"Total Deposits", "(YTD, $)">>,
    <<"Total Loans and Leases", "(YTD, $)">>,
    <<"Net Loans and Leases", "(YTD, $)">>,
    <<"Total Securities", "(YTD, $)">>,
    <<"Real Estate Loans", "(YTD, $)">>,
    <<"Loans to Residential Properties", "(YTD, $)">>,
    <<"Multifamily", "(YTD, $)">>,
    <<"Farmland Real Estate Loans", "(YTD, $)">>,
    <<"1-4 Family Residential Construction and Land Development Loans", "(YTD, $)">>,
    <<"Other Construction, All Land Development and Other Land Loans", "(YTD, $)">>,
    <<"Loans to Nonresidential Properties", "(YTD, $)">>,
    <<"Owner-Occupied Nonresidential Properties Loans", "(YTD, $)">>,
    <<"Non-OOC Nonresidential Properties Loans", "(YTD, $)">>,
    <<"Commercial Real Estate Loans not Secured by Real Estate", "(YTD, $)">>,
    <<"Commercial and Industrial Loans", "(YTD, $)">>,
    <<"Agriculture Loans", "(YTD, $)">>,
    <<"Credit Cards", "(YTD, $)">>,
    <<"Consumer Loans", "(YTD, $)">>,
    <<"Allowance for Credit Loss", "(YTD, $)">>,
    <<"Past Due 30-89 Days", "(Qtly, $)">>,
    <<"Past Due 90+ Days", "(Qtly, $)">>,
    <<"Tier 1 (Core) Capital", "(Qtly, $)">>,
    <<"Total Charge-Offs", "(YTD, $)">>,
    <<"Total Recoveries", "(YTD, $)">>,
    <<"Total Loans and Leases Net Charge-Offs Quarterly", "(Qtly, $)">>,
    <<"Net Income", "(YTD, $)">>,
    <<"RE Construction and Land Development", "(YTD, $)">>,
    <<"RE Construction and Land Development to Tier 1 + ACL", "(Qtly, %)">>,
    <<"Common Equity Tier 1 Before Adjustments", "(YTD, $)">>,
    <<"Bank Equity Capital", "(YTD, $)">>,
    <<"Perpetual Preferred Stock", "(YTD, $)">>,
    <<"CECL Transition Amount", "(YTD, $)">>,
    <<"Net Interest Margin", "(YTD, %)">>,
    <<"Earning Assets / Total Assets", "(Qtly, %)">>,
    <<"Nonperforming Assets / Total Assets", "(Qtly, %)">>,
    <<"Assets Past Due 30-89 Days / Total Assets", "(Qtly, %)">>,
    <<"Assets Past Due 90+ Days / Total Assets", "(Qtly, %)">>,
    <<"Net Charge-Offs / Total Loans & Leases", "(YTD, %)">>,
    <<"Earnings Coverage of Net Loan Charge-Offs", "(X)">>,
    <<"Loan and Lease Loss Provision to Net Charge-Offs", "(YTD, %)">>,
    <<"Loss Allowance / Total Loans & Leases", "(YTD, %)">>,
    <<"Loss Allowance to Noncurrent Loans and Leases", "(Qtly, %)">>,
    <<"Noncurrent Loans / Total Loans", "(Qtly, %)">>,
    <<"Net Loans and Leases to Deposits", "(YTD, %)">>,
    <<"Net Loans and Leases to Assets", "(Qtly, %)">>,
    <<"Return on Assets", "(YTD, %)">>,
    <<"Return on Equity", "(YTD, %)">>,
    <<"Leverage (Core Capital) Ratio", "(Qtly, %)">>,
    <<"Total Risk-Based Capital Ratio", "(Qtly, %)">>,
    <<"Efficiency Ratio", "(YTD, %)">>,
    <<"Real Estate Loans to Tier 1 + ACL", "(Qtly, %)">>,
    <<"Commercial RE to Tier 1 + ACL", "(Qtly, %)">>,
    <<"Non-Owner Occupied CRE 3-Year Growth Rate", "(%)">>,
    <<"C&I Loans to Tier 1 + ACL", "(Qtly, %)">>,
    <<"Agriculture Loans to Tier 1 + ACL", "(Qtly, %)">>,
    <<"Credit Cards to Tier 1 + ACL", "(Qtly, %)">>,
    <<"Net Charge-Offs / Allowance for Credit Loss", "(Qtly, %)">>
>>

\* the dict metric_definitions: metric name -> definition
MetricDefinitions ==
    [name \in {DefinitionTexts[j][1] : j \in 1..Len(DefinitionTexts)} |->
        DefinitionTexts[CHOOSE j \in 1..Len(DefinitionTexts) : DefinitionTexts[j][1] = name][2]]

(***************************************************************************)
(* Strings: ordering, and pd.to_datetime(s, format='%Y%m%d').              *)
(***************************************************************************)
\* the characters the model uses, and their code points
Chars == {"+", "-", ".", "x"} \cup {Digits[j] : j \in 1..10}
Ord ==
    [c \in Chars |->
        CASE c = "+" -> 43
          [] c = "-" -> 45
          [] c = "." -> 46
          [] c = "x" -> 120
          [] OTHER -> 48 + DigitVal(c)]

\* s < t on tuples of integers (lexicographic, as Python compares strings)
RECURSIVE LexLess(_, _)
LexLess(s, t) ==
    IF t = <<>> THEN FALSE
    ELSE IF s = <<>> THEN TRUE
    ELSE IF s[1] # t[1] THEN s[1] < t[1]
    ELSE LexLess(Tail(s), Tail(t))

Codes(s) == [j \in 1..Len(s) |-> Ord[s[j]]]

\* insertion of x into a list sorted by .key, after the elements not greater
RECURSIVE InsertByKey(_, _)
InsertByKey(sorted, x) ==
    IF sorted = <<>> THEN <<x>>
    ELSE IF LexLess(x.key, sorted[1].key) THEN <<x>> \o sorted
    ELSE <<sorted[1]>> \o InsertByKey(Tail(sorted), x)

RECURSIVE SortPairs(_)
SortPairs(seq) ==
    IF seq = <<>> THEN <<>>
    ELSE InsertByKey(SortPairs(SubSeq(seq, 1, Len(seq) - 1)), seq[Len(seq)])

\* the items of a list of [key, item] pairs stably sorted by key
Sorted(pairs) ==
    LET sorted == SortPairs(pairs)
    IN  [j \in 1..Len(pairs) |-> sorted[j].item]

IsLeap(y) == (y % 4 = 0 /\ y % 100 # 0) \/ y % 400 = 0
DaysIn(y, m) ==
    IF m = 2 THEN (IF IsLeap(y) THEN 29 ELSE 28)
    ELSE IF m \in {4, 6, 9, 11} THEN 30 ELSE 31

\* the 8-character strings that '%Y%m%d' parses; others raise ValueError
DateStrOK(s) ==
    /\ Len(s) = 8
    /\ AllDigits(s)
    /\ LET y == DigitsVal(SubSeq(s, 1, 4))
           m == DigitsVal(SubSeq(s, 5, 6))
           d == DigitsVal(SubSeq(s, 7, 8))
       IN  m \in 1..12 /\ d \in 1..DaysIn(y, m)

\* the string parsed with format='%Y': the year alone
to_datetime_YearOnly(s) == DigitsVal(SubSeq(s, 1, 4))

\* a Timestamp is modelled as the integer yyyymmdd
to_datetime(s) == DigitsVal(s)

\* pd.to_datetime('2019-01-01')
CeclStart == 20190101

(***************************************************************************)
(* calculate_metrics: one row.                                             *)
(***************************************************************************)
\* the dict literal: every base metric is safe_float(financial.get(code))
BaseRow(financial) ==
    [name \in BaseNames |-> safe_float(Get(financial, CodeOf[name]))]

\* mutant: the boundary day itself is left out
CeclApplies_After(financial) == to_datetime(financial["REPDTE"].s) > CeclStart

\* date >= pd.to_datetime('2019-01-01')
CeclApplies(financial) == to_datetime(financial["REPDTE"].s) >= CeclStart

\* the else branch without its assignment: no amount before 2019
cecl_transition_amount_Unset(metrics, financial) ==
    IF CeclApplies(financial)
    THEN FAdd(FSub(metrics["Common Equity Tier 1 Before Adjustments"],
                   metrics["Bank Equity Capital"]),
              metrics["Perpetual Preferred Stock"])
    ELSE NoneValue

cecl_transition_amount(metrics, financial) ==
    IF CeclApplies(financial)
    THEN FAdd(FSub(metrics["Common Equity Tier 1 Before Adjustments"],
                   metrics["Bank Equity Capital"]),
              metrics["Perpetual Preferred Stock"])
    ELSE F(0)

capital_base(metrics, financial) ==
    IF CeclApplies(financial)
    THEN FSub(FAdd(metrics["Tier 1 (Core) Capital"], metrics["Allowance for Credit Loss"]),
              cecl_transition_amount(metrics, financial))
    ELSE FAdd(metrics["Tier 1 (Core) Capital"], metrics["Allowance for Credit Loss"])

\* the five ratios of one loan category: ratio name, category name
CategoryRatios == <<
    <<"Real Estate Loans to Tier 1 + ACL", "Real Estate Loans">>,
    <<"RE Construction and Land Development to Tier 1 + ACL", "RE Construction and Land Development">>,
    <<"C&I Loans to Tier 1 + ACL", "Commercial and Industrial Loans">>,
    <<"Agriculture Loans to Tier 1 + ACL", "Agriculture Loans">>,
    <<"Credit Cards to Tier 1 + ACL", "Credit Cards">>
>>

CategoryRatioNames == {CategoryRatios[j][1] : j \in 1..Len(CategoryRatios)}
\* mutant: the agriculture ratio reads the credit card loans
CategoryOf_Pasted ==
    [ratio \in CategoryRatioNames |->
        IF ratio = "Agriculture Loans to Tier 1 + ACL" THEN "Credit Cards"
        ELSE CategoryRatios[CHOOSE j \in 1..Len(CategoryRatios) : CategoryRatios[j][1] = ratio][2]]

CategoryOf ==
    [ratio \in CategoryRatioNames |->
        CategoryRatios[CHOOSE j \in 1..Len(CategoryRatios) : CategoryRatios[j][1] = ratio][2]]

RatioNames == CategoryRatioNames \cup {"Commercial RE to Tier 1 + ACL"}

\* mutant: the non-owner-occupied part instead of all nonresidential loans
commercial_re_NonOwner(metrics) ==
    FAdd(FAdd(FAdd(metrics["RE Construction and Land Development"],
                   metrics["Multifamily"]),
              metrics["Non-OOC Nonresidential Properties Loans"]),
         metrics["Commercial Real Estate Loans not Secured by Real Estate"])

commercial_re(metrics) ==
    FAdd(FAdd(FAdd(metrics["RE Construction and Land Development"],
                   metrics["Multifamily"]),
              metrics["Loans to Nonresidential Properties"]),
         metrics["Commercial Real Estate Loans not Secured by Real Estate"])

\* mutant: without a positive capital base the ratios are left undefined
ConcentrationRatios_Undefined(metrics, base) ==
    IF FGt(base, F(0))
    THEN [r \in RatioNames |->
            IF r \in CategoryRatioNames
            THEN FMul(FDiv(metrics[CategoryOf[r]], base), F(100))
            ELSE FMul(FDiv(commercial_re(metrics), base), F(100))]
    ELSE [r \in RatioNames |-> NoneValue]

\* the if capital_base > 0 / else block
ConcentrationRatios(metrics, base) ==
    IF FGt(base, F(0))
    THEN [r \in RatioNames |->
            IF r \in CategoryRatioNames
            THEN FMul(FDiv(metrics[CategoryOf[r]], base), F(100))
            ELSE FMul(FDiv(commercial_re(metrics), base), F(100))]
    ELSE [r \in RatioNames |-> F(0)]

\* mutant: all nonresidential loans instead of the non-owner-occupied part
non_owner_occupied_cre_AllNonres(financial) ==
    FAdd(FAdd(FAdd(safe_float(Get(financial, "LNRECONS")),
                   safe_float(Get(financial, "LNREMULT"))),
              safe_float(Get(financial, "LNRENRES"))),
         safe_float(Get(financial, "LNCOMRE")))

non_owner_occupied_cre(financial) ==
    FAdd(FAdd(FAdd(safe_float(Get(financial, "LNRECONS")),
                   safe_float(Get(financial, "LNREMULT"))),
              safe_float(Get(financial, "LNRENROT"))),
         safe_float(Get(financial, "LNCOMRE")))

\* mutant: one period short
LookbackPeriods_Eleven == 12 - 1

\* number of periods the growth rate looks back
LookbackPeriods == 12

\* mutant: the guard lets a negative old value through
GrowthRate_NonZero(sorted_financials, i) ==
    IF i >= LookbackPeriods
    THEN LET three_years_ago == sorted_financials[(i - LookbackPeriods) + 1]
             old == non_owner_occupied_cre(three_years_ago)
             cur == non_owner_occupied_cre(sorted_financials[i + 1])
         IN  IF old # F(0)
             THEN FMul(FSub(FDiv(cur, old), F(1)), F(100))
             ELSE NoneValue
    ELSE NoneValue

\* the lookback by calendar: the record dated three years before, if any
GrowthRate_Calendar(sorted_financials, i) ==
    LET target == to_datetime(sorted_financials[i + 1]["REPDTE"].s) - 30000
        dated == {j \in 1..Len(sorted_financials) :
                     to_datetime(sorted_financials[j]["REPDTE"].s) = target}
    IN  IF dated # {}
        THEN LET three_years_ago == sorted_financials[CHOOSE j \in dated : TRUE]
                 old == non_owner_occupied_cre(three_years_ago)
                 cur == non_owner_occupied_cre(sorted_financials[i + 1])
             IN  IF FGt(old, F(0))
                 THEN FMul(FSub(FDiv(cur, old), F(1)), F(100))
                 ELSE NoneValue
        ELSE NoneValue

\* the if i >= 12 block; i counts from 0 as enumerate does
GrowthRate(sorted_financials, i) ==
    IF i >= LookbackPeriods
    THEN LET three_years_ago == sorted_financials[(i - LookbackPeriods) + 1]
             old == non_owner_occupied_cre(three_years_ago)
             cur == non_owner_occupied_cre(sorted_financials[i + 1])
         IN  IF FGt(old, F(0))
             THEN FMul(FSub(FDiv(cur, old), F(1)), F(100))
             ELSE NoneValue
    ELSE NoneValue

\* mutant: the guard lets a negative allowance through
ChargeOffRatio_NonZero(metrics) ==
    IF metrics["Allowance for Credit Loss"] # F(0)
    THEN FMul(FDiv(metrics["Total Loans and Leases Net Charge-Offs Quarterly"],
                   metrics["Allowance for Credit Loss"]), F(100))
    ELSE F(0)

ChargeOffRatio(metrics) ==
    IF FGt(metrics["Allowance for Credit Loss"], F(0))
    THEN FMul(FDiv(metrics["Total Loans and Leases Net Charge-Offs Quarterly"],
                   metrics["Allowance for Credit Loss"]), F(100))
    ELSE F(0)

DerivedNames ==
    RatioNames \cup {"CECL Transition Amount",
                     "Non-Owner Occupied CRE 3-Year Growth Rate",
                     "Net Charge-Offs / Allowance for Credit Loss"}

MetricNames == BaseNames \cup DerivedNames

\* the CECL transition amount stored only on the rows it applies to
Metrics_CeclWhenApplies(bank_name, sorted_financials, i) ==
    LET financial == sorted_financials[i + 1]
        base == BaseRow(financial)
        ratios == ConcentrationRatios(base, capital_base(base, financial))
        names == IF CeclApplies(financial) THEN MetricNames
                 ELSE MetricNames \ {"CECL Transition Amount"}
    IN  [Bank |-> bank_name,
         Date |-> financial["REPDTE"].s,
         m |-> [name \in names |->
                 CASE name \in BaseNames -> base[name]
                   [] name \in RatioNames -> ratios[name]
                   [] name = "CECL Transition Amount" ->
                        cecl_transition_amount(base, financial)
                   [] name = "Non-Owner Occupied CRE 3-Year Growth Rate" ->
                        GrowthRate(sorted_financials, i)
                   [] name = "Net Charge-Offs / Allowance for Credit Loss" ->
                        ChargeOffRatio(base)]]

\* the metrics dict of the i-th record of a bank, as appended to all_metrics
Metrics(bank_name, sorted_financials, i) ==
    LET financial == sorted_financials[i + 1]
        base == BaseRow(financial)
        ratios == ConcentrationRatios(base, capital_base(base, financial))
    IN  [Bank |-> bank_name,
         Date |-> financial["REPDTE"].s,
         m |-> [name \in MetricNames |->
                 CASE name \in BaseNames -> base[name]
                   [] name \in RatioNames -> ratios[name]
                   [] name = "CECL Transition Amount" ->
                        cecl_transition_amount(base, financial)
                   [] name = "Non-Owner Occupied CRE 3-Year Growth Rate" ->
                        GrowthRate(sorted_financials, i)
                   [] name = "Net Charge-Offs / Allowance for Credit Loss" ->
                        ChargeOffRatio(base)]]

(***************************************************************************)
(* calculate_metrics: the exceptions it lets through.                      *)
(***************************************************************************)
\* x['REPDTE'] in the sort key raises KeyError
SortRaises(financials) ==
    \E j \in 1..Len(financials) : "REPDTE" \notin DOMAIN financials[j]

\* building the row of one record raises: TypeError out of safe_float,
\* ValueError out of pd.to_datetime
RowRaises(financial) ==
    \/ \E c \in FieldCodes : SafeFloatRaises(Get(financial, c))
    \/ ~DateStrOK(financial["REPDTE"].s)

RowException(financial) ==
    IF \E c \in FieldCodes : SafeFloatRaises(Get(financial, c))
    THEN "TypeError" ELSE "ValueError"

\* the records taken in the order of the list
SortedFinancials_Unsorted(financials) == financials

\* sorted(financials, key=lambda x: x['REPDTE'])
SortedFinancials(financials) ==
    Sorted([j \in 1..Len(financials) |->
              [key |-> Codes(financials[j]["REPDTE"].s), item |-> financials[j]]])

(***************************************************************************)
(* A Python dict is a sequence of [key, value] entries in insertion order. *)
(***************************************************************************)
Keys(dict) == {dict[j].key : j \in 1..Len(dict)}
\* dict[key] = value
DictSet(dict, key, value) ==
    IF key \in Keys(dict)
    THEN [j \in 1..Len(dict) |->
            IF dict[j].key = key THEN [key |-> key, value |-> value] ELSE dict[j]]
    ELSE Append(dict, [key |-> key, value |-> value])

(***************************************************************************)
(* calculate_metrics: the table.                                           *)
(***************************************************************************)
RECURSIVE Concat(_)
Concat(seqs) == IF seqs = <<>> THEN <<>> ELSE seqs[1] \o Concat(Tail(seqs))

\* the rows one bank appends to all_metrics
BankRows(bank_name, sorted_financials) ==
    [j \in 1..Len(sorted_financials) |-> Metrics(bank_name, sorted_financials, j - 1)]

\* the exception the pass over one bank raises, "" when it completes
BankException(financials, sorted_financials) ==
    IF SortRaises(financials) THEN "KeyError"
    ELSE LET bad == {j \in 1..Len(financials) : RowRaises(sorted_financials[j])}
         IN  IF bad = {} THEN ""
             ELSE RowException(sorted_financials[CHOOSE j \in bad : \A h \in bad : j <= h])

Raise(exc) == [k |-> "raise", exc |-> exc, rows |-> <<>>]
DataFrame(rows) == [k |-> "DataFrame", exc |-> "", rows |-> rows]
ReturnNone == [k |-> "None", exc |-> "", rows |-> <<>>]

\* the Date column converted, the rows left in the order of all_metrics
SortValuesByDate_Unsorted(all_metrics) ==
    [j \in 1..Len(all_metrics) |->
        [all_metrics[j] EXCEPT !.Date = to_datetime(all_metrics[j].Date)]]

\* df['Date'] = pd.to_datetime(df['Date'], format='%Y%m%d'); df.sort_values('Date')
SortValuesByDate(all_metrics) ==
    Sorted([j \in 1..Len(all_metrics) |->
              [key |-> <<to_datetime(all_metrics[j].Date)>>,
               item |-> [all_metrics[j] EXCEPT !.Date = to_datetime(all_metrics[j].Date)]]])

\* the value calculate_metrics returns, or the exception it raises
calculate_metrics(dict) ==
    LET sorted == [j \in 1..Len(dict) |->
                     IF SortRaises(dict[j].value) THEN <<>>
                     ELSE SortedFinancials(dict[j].value)]
        excs == [j \in 1..Len(dict) |-> BankException(dict[j].value, sorted[j])]
        failed == {j \in 1..Len(dict) : excs[j] # ""}
    IN  IF failed # {} THEN Raise(excs[CHOOSE j \in failed : \A h \in failed : j <= h])
        ELSE LET all_metrics ==
                     Concat([j \in 1..Len(dict) |-> BankRows(dict[j].key, sorted[j])])
             IN  \* pd.DataFrame([]) has no 'Date' column
                 IF all_metrics = <<>> THEN Raise("KeyError")
                 ELSE DataFrame(SortValuesByDate(all_metrics))

(***************************************************************************)
(* The FDIC API, as get_data sees it.  api.institutions and api.financials *)
(* are the lists of items the server holds, api.down the requests that     *)
(* fail; a request that fails with a RequestException yields {"data": []}. *)
(***************************************************************************)
\* get_institutions(filters, fields): the 'data' list of the response
get_institutions(server, filter, down) ==
    IF <<"institutions", filter>> \in down THEN <<>>
    ELSE SelectSeq(server.institutions,
                   LAMBDA item : IF filter.by = "NAME" THEN item.data.NAME = filter.value
                                 ELSE item.data.CERT = filter.value)

\* get_financials(cert, filters, fields): the 'data' list of the response
get_financials(server, cert, down) ==
    IF <<"financials", cert>> \in down THEN <<>>
    ELSE SelectSeq(server.financials, LAMBDA item : item.cert = cert)

\* the records of a request added to those held: list.extend in place of =
FetchItem_Extends(server, dicts, bank_item, down) ==
    IF bank_item.k \notin {"str", "dict"} THEN dicts
    ELSE LET institutions ==
                 IF bank_item.k = "str"
                 THEN get_institutions(server, [by |-> "NAME", value |-> bank_item.v], down)
                 ELSE get_institutions(server, [by |-> "CERT", value |-> bank_item.v], down)
         IN  IF institutions = <<>> THEN dicts
             ELSE LET bank == institutions[1]
                  IN  IF ~(bank.isDict /\ bank.hasData) THEN dicts
                      ELSE IF ~(bank.hasName /\ bank.hasCert) THEN dicts
                      ELSE LET bank_data == bank.data
                               financials == get_financials(server, bank_data.CERT, down)
                               kept == SelectSeq(financials,
                                                 LAMBDA f : f.isDict /\ f.hasData)
                               held == SelectSeq(dicts.financials_data,
                                                 LAMBDA e : e.key = bank_data.NAME)
                               before == IF held = <<>> THEN <<>> ELSE held[1].value
                           IN  [institutions_data |->
                                    DictSet(dicts.institutions_data, bank_data.NAME, bank_data),
                                financials_data |->
                                    DictSet(dicts.financials_data, bank_data.NAME,
                                            before \o [j \in 1..Len(kept) |-> kept[j].data])]

\* financials_data assigned only when the request returned something
FetchItem_SkipsEmpty(server, dicts, bank_item, down) ==
    IF bank_item.k \notin {"str", "dict"} THEN dicts
    ELSE LET institutions ==
                 IF bank_item.k = "str"
                 THEN get_institutions(server, [by |-> "NAME", value |-> bank_item.v], down)
                 ELSE get_institutions(server, [by |-> "CERT", value |-> bank_item.v], down)
         IN  IF institutions = <<>> THEN dicts
             ELSE LET bank == institutions[1]
                  IN  IF ~(bank.isDict /\ bank.hasData) THEN dicts
                      ELSE IF ~(bank.hasName /\ bank.hasCert) THEN dicts
                      ELSE LET bank_data == bank.data
                               financials == get_financials(server, bank_data.CERT, down)
                               kept == SelectSeq(financials,
                                                 LAMBDA f : f.isDict /\ f.hasData)
                           IN  [institutions_data |->
                                    DictSet(dicts.institutions_data, bank_data.NAME, bank_data),
                                financials_data |->
                                    IF financials = <<>> THEN dicts.financials_data
                                    ELSE DictSet(dicts.financials_data, bank_data.NAME,
                                                 [j \in 1..Len(kept) |-> kept[j].data])]

\* one pass of the loop of fetch_data over a bank_item
FetchItem(server, dicts, bank_item, down) ==
    IF bank_item.k \notin {"str", "dict"} THEN dicts
    ELSE LET institutions ==
                 IF bank_item.k = "str"
                 THEN get_institutions(server, [by |-> "NAME", value |-> bank_item.v], down)
                 ELSE get_institutions(server, [by |-> "CERT", value |-> bank_item.v], down)
         IN  IF institutions = <<>> THEN dicts
             ELSE LET bank == institutions[1]
                  IN  IF ~(bank.isDict /\ bank.hasData) THEN dicts
                      ELSE IF ~(bank.hasName /\ bank.hasCert) THEN dicts
                      ELSE LET bank_data == bank.data
                               financials == get_financials(server, bank_data.CERT, down)
                               kept == SelectSeq(financials,
                                                 LAMBDA f : f.isDict /\ f.hasData)
                           IN  [institutions_data |->
                                    DictSet(dicts.institutions_data, bank_data.NAME, bank_data),
                                financials_data |->
                                    DictSet(dicts.financials_data, bank_data.NAME,
                                            [j \in 1..Len(kept) |-> kept[j].data])]

\* the loop left at an item of the wrong type: break in place of continue
RECURSIVE FetchLoop_Break(_, _, _, _)
FetchLoop_Break(server, dicts, bank_info, down) ==
    IF bank_info = <<>> THEN dicts
    ELSE IF bank_info[1].k \notin {"str", "dict"} THEN dicts
    ELSE FetchLoop_Break(server, FetchItem(server, dicts, bank_info[1], down),
                         Tail(bank_info), down)

\* for bank_item in bank_info
RECURSIVE FetchLoop(_, _, _, _)
FetchLoop(server, dicts, bank_info, down) ==
    IF bank_info = <<>> THEN dicts
    ELSE FetchLoop(server, FetchItem(server, dicts, bank_info[1], down),
                   Tail(bank_info), down)

(***************************************************************************)
(* The data the model lets the server hold.                                *)
(***************************************************************************)
FlagstarCert == "32541"
FlagstarName == "Flagstar Bank, National Association"
PeerCert == "6560"
PeerName == "The Huntington National Bank"

\* the decimal digits of a natural number
RECURSIVE Dec(_)
Dec(n) == IF n < 10 THEN <<Digits[n + 1]>> ELSE Dec(n \div 10) \o <<Digits[(n % 10) + 1]>>

\* the REPDTE of the j-th quarter end, counting from 2015-12-31
QuarterEnd(j) ==
    LET y == 2015 + ((j + 2) \div 4)
        q == (j + 2) % 4
    IN  Str(Dec(y * 10000 + (CASE q = 0 -> 331 [] q = 1 -> 630 [] q = 2 -> 930 [] q = 3 -> 1231)))

\* a period record: the given fields and the given REPDTE
Rec(fields, date) ==
    [c \in DOMAIN fields \cup {"REPDTE"} |-> IF c = "REPDTE" THEN date ELSE fields[c]]

\* a period record without the REPDTE key
Undated(fields) == [c \in DOMAIN fields |-> fields[c]]

Filler ==
    [ASSET |-> Num(1000), LNRE |-> Num(200), LNRECONS |-> Num(40), LNREMULT |-> Num(30),
         LNRENROT |-> Num(20), LNRENRES |-> Num(50), LNCOMRE |-> Num(10), LNCI |-> Num(60),
         LNAG |-> Num(8), LNCRCD |-> Num(12), RBCT1J |-> Num(80), LNATRES |-> Num(10),
         CT1BADJ |-> Num(100), EQ |-> Num(90), EQPP |-> Num(5), NTLNLSQ |-> Num(1),
         ROA |-> Str(<<"1", ".", "5">>)]

\* the same kind of record three years on, its numbers sent as strings
Grown ==
    [ASSET |-> Str(Dec(1500)), LNRE |-> Str(Dec(300)), LNRECONS |-> Str(Dec(60)),
         LNREMULT |-> Str(Dec(45)), LNRENROT |-> Str(Dec(30)), LNRENRES |-> Str(Dec(70)),
         LNCOMRE |-> Str(Dec(15)), LNCI |-> Str(Dec(90)), LNAG |-> Str(Dec(9)),
         LNCRCD |-> Str(Dec(18)), RBCT1J |-> Str(Dec(80)), LNATRES |-> Str(Dec(50)),
         CT1BADJ |-> Str(Dec(100)), EQ |-> Str(Dec(90)), EQPP |-> Str(Dec(5)),
         NTLNLSQ |-> Str(Dec(5)), ROA |-> Str(<<"-", "0", ".", "2", "5">>)]

\* no field but the date
Blank == <<>>

\* zeros, nulls and text where the numbers should be
Zeroed ==
    [LNRE |-> Num(200), LNRECONS |-> Num(0), LNREMULT |-> Null,
         LNRENROT |-> Str(<<"x">>), LNRENRES |-> Num(50), LNCOMRE |-> Str(<<"-">>),
         LNCI |-> Num(60), RBCT1J |-> Num(0), LNATRES |-> Str(<<".">>),
         CT1BADJ |-> Null, EQ |-> Str(<<"1", ".", "5", ".">>), NTLNLSQ |-> Num(7)]

\* negative capital, a negative allowance and a negative loan book
Negative ==
    [LNRE |-> Num(100), LNRECONS |-> Num(-50), LNREMULT |-> Num(10),
         LNRENRES |-> Num(25), LNCI |-> Num(30), LNAG |-> Num(4), LNCRCD |-> Num(6),
         RBCT1J |-> Num(-20), LNATRES |-> Num(-5), NTLNLSQ |-> Num(3),
         CT1BADJ |-> Num(10), EQ |-> Num(10)]

\* a CECL transition amount larger than tier 1 capital plus allowance
CeclHeavy ==
    [LNRE |-> Num(200), LNRECONS |-> Num(40), LNREMULT |-> Num(30),
         LNRENROT |-> Num(20), LNRENRES |-> Num(50), LNCOMRE |-> Num(10), LNCI |-> Num(60),
         LNAG |-> Num(8), LNCRCD |-> Num(12), RBCT1J |-> Num(80), LNATRES |-> Num(10),
         CT1BADJ |-> Num(200), EQ |-> Num(90), EQPP |-> Num(5), NTLNLSQ |-> Num(-2)]

\* a record one of whose fields is a JSON array
Nested == [Filler EXCEPT !.LNCI = Obj]

\* REPDTE values that are not quarter ends of the calendar
CeclDay == Str(Dec(20190101))
BadDate == Str(<<"2", "0", "1", "9", "x", "1", "0", "1">>)

\* what the oldest record of a list may be
OldRecords == {Filler, Blank, Negative}

\* how the newest record of a list is dated
DateKinds == {"quarter", "cecl", "dup", "gap", "bad", "none"}

\* what the newest record of a list may be
NewRecords ==
    {[rec |-> r, date |-> "quarter"] : r \in {Filler, Grown, Blank, Zeroed, Negative, CeclHeavy, Nested}}
    \cup {[rec |-> r, date |-> "cecl"] : r \in {Filler, CeclHeavy}}
    \cup {[rec |-> Grown, date |-> "dup"], [rec |-> Grown, date |-> "gap"]}
    \cup {[rec |-> Filler, date |-> "bad"], [rec |-> Filler, date |-> "none"]}

\* n quarterly records, old first and new last, the others Filler
Quarterly(n, old, new) ==
    [j \in 1..n |->
        IF j = n
        THEN CASE new.date = "quarter" -> Rec(new.rec, QuarterEnd(j))
               [] new.date = "cecl" -> Rec(new.rec, CeclDay)
               \* the date of the quarter before, reported a second time
               [] new.date = "dup" -> Rec(new.rec, QuarterEnd(j - 1))
               \* a quarter without a report before the newest one
               [] new.date = "gap" -> Rec(new.rec, QuarterEnd(j + 1))
               [] new.date = "bad" -> Rec(new.rec, BadDate)
               [] new.date = "none" -> Undated(new.rec)
        ELSE Rec(IF j = 1 THEN old ELSE Filler, QuarterEnd(j))]

Reverse(seq) == [j \in 1..Len(seq) |-> seq[Len(seq) + 1 - j]]

\* the list lengths the model tries: none, one, and those that reach the lookback
Lengths == {0, 1} \cup (LookbackPeriods..MaxLen)

FlagstarLists ==
    LET asc == {Quarterly(n, old, new) : n \in Lengths, old \in OldRecords, new \in NewRecords}
    IN  asc \cup {Reverse(l) : l \in asc}

PeerLists ==
    {Quarterly(n, Filler, [rec |-> Filler, date |-> "quarter"]) : n \in 0..MaxPeerLen}

Institution(name, cert) ==
    [isDict |-> TRUE, hasData |-> TRUE, hasName |-> TRUE, hasCert |-> TRUE,
     data |-> [NAME |-> name, CERT |-> cert]]

FinancialItems(cert, list) ==
    [j \in 1..Len(list) |-> [isDict |-> TRUE, hasData |-> TRUE, cert |-> cert, data |-> list[j]]]

Servers ==
    {[institutions |-> <<Institution(FlagstarName, FlagstarCert), Institution(PeerName, PeerCert)>>,
      financials |-> FinancialItems(FlagstarCert, fl) \o FinancialItems(PeerCert, pl),
      down |-> {}] :
        fl \in FlagstarLists, pl \in PeerLists}

\* a bank_item of bank_info
ByCert(cert) == [k |-> "dict", v |-> cert]
ByName(name) == [k |-> "str", v |-> name]

\* a bank_item that is neither a str nor a dict
Invalid == [k |-> "int", v |-> FlagstarCert]

RegionsCert == "12368"
RegionsName == "Regions Bank"

BankInfos ==
    {<<ByCert(FlagstarCert)>>, <<ByCert(PeerCert)>>,
     <<ByCert(FlagstarCert), ByCert(PeerCert)>>,
     <<ByName(PeerName), ByCert(FlagstarCert)>>,
     <<ByName(PeerName), ByCert(PeerCert)>>,
     <<Invalid, ByCert(FlagstarCert)>>,
     <<ByCert(RegionsCert), ByCert(PeerCert)>>,
     <<ByCert(FlagstarCert), Invalid, ByCert(RegionsCert), ByName(PeerName)>>}

(***************************************************************************)
(* A server whose data changes between the calls of fetch_data, whose      *)
(* requests may fail, and which holds an institution item that is not of   *)
(* the expected shape.                                                     *)
(***************************************************************************)
\* what is wrong with the item of Regions Bank: it is no dict, or it lacks
\* 'data', or its data lack 'NAME' or 'CERT'
BrokenKinds == {"list", "nodata", "noname", "nocert"}
Broken(kind) ==
    [isDict |-> kind # "list", hasData |-> kind # "nodata",
     hasName |-> kind # "noname", hasCert |-> kind # "nocert",
     data |-> [NAME |-> RegionsName, CERT |-> RegionsCert]]

\* an item of a financials response without 'data'
NoDataItem(cert) == [isDict |-> TRUE, hasData |-> FALSE, cert |-> cert, data |-> <<>>]

\* the sets of requests that fail together
Outages ==
    {{},
     {<<"institutions", [by |-> "CERT", value |-> FlagstarCert]>>},
     {<<"financials", FlagstarCert>>},
     {<<"financials", PeerCert>>},
     {<<"institutions", [by |-> "CERT", value |-> PeerCert]>>,
      <<"institutions", [by |-> "NAME", value |-> PeerName]>>,
      <<"financials", FlagstarCert>>}}

\* the record lists the changing server holds: one quarter, then two
FetchFlagstarLists ==
    {<<Rec(Filler, QuarterEnd(1))>>, <<Rec(Filler, QuarterEnd(1)), Rec(Grown, QuarterEnd(2))>>}
FetchPeerLists == {<<>>, <<Rec(Filler, QuarterEnd(1))>>}

FetchServers ==
    {[institutions |-> <<Institution(FlagstarName, FlagstarCert),
                         Institution(PeerName, PeerCert), Broken(kind)>>,
      financials |-> FinancialItems(FlagstarCert, fl) \o <<NoDataItem(FlagstarCert)>>
                     \o FinancialItems(PeerCert, pl)
                     \o FinancialItems(RegionsCert, <<Rec(Filler, QuarterEnd(1))>>),
      down |-> d] :
        fl \in FetchFlagstarLists, pl \in FetchPeerLists, kind \in BrokenKinds,
        d \in Outages}

\* no dashboard has been created
NoDashboard == [created |-> FALSE]

(***************************************************************************)
(* The state machine: an analyzer, and the calls made on it.               *)
(***************************************************************************)
Init ==
    /\ api \in Servers
    /\ institutions_data = <<>>
    /\ financials_data = <<>>
    /\ dollar_format_metrics = DollarFormatMetrics
    /\ metric_definitions = MetricDefinitions
    /\ ret = ReturnNone
    /\ dashboard = NoDashboard

\* analyzer.fetch_data(bank_info, start_date, end_date)
FetchData ==
    \E bank_info \in BankInfos :
        LET dicts == FetchLoop(api, [institutions_data |-> institutions_data,
                                     financials_data |-> financials_data],
                               bank_info, api.down)
        IN  /\ institutions_data' = dicts.institutions_data
            /\ financials_data' = dicts.financials_data
            /\ ret' = ReturnNone
            /\ UNCHANGED <<api, dollar_format_metrics, metric_definitions, dashboard>>

\* the lists sorted in place, financials.sort(key=...), where the sort succeeds
CalculateMetrics_InPlace ==
    /\ ret' = calculate_metrics(financials_data)
    /\ financials_data' =
           [b \in 1..Len(financials_data) |->
               [financials_data[b] EXCEPT !.value =
                   IF SortRaises(@) THEN @ ELSE SortedFinancials(@)]]
    /\ UNCHANGED <<api, institutions_data, dollar_format_metrics, metric_definitions,
                   dashboard>>

\* analyzer.calculate_metrics()
CalculateMetrics ==
    /\ ret' = calculate_metrics(financials_data)
    /\ UNCHANGED <<api, institutions_data, financials_data, dollar_format_metrics,
                   metric_definitions, dashboard>>

Next == FetchData \/ CalculateMetrics

Spec == Init /\ [][Next]_vars

(***************************************************************************)
(* The state machine of the fetch phase alone, against the changing server.*)
(***************************************************************************)
FetchInit ==
    /\ api \in FetchServers
    /\ institutions_data = <<>>
    /\ financials_data = <<>>
    /\ dollar_format_metrics = DollarFormatMetrics
    /\ metric_definitions = MetricDefinitions
    /\ ret = ReturnNone
    /\ dashboard = NoDashboard

\* between two calls the server publishes other data, and other requests fail
ServerChanges ==
    /\ \E server \in FetchServers : server # api /\ api' = server
    /\ UNCHANGED <<institutions_data, financials_data, dollar_format_metrics,
                   metric_definitions, ret, dashboard>>

FetchNext == FetchData \/ ServerChanges

FetchSpec == FetchInit /\ [][FetchNext]_vars

(***************************************************************************)
(* The dashboard: main, create_dashboard and the callback that fills the   *)
(* Bank Details card.  A Timestamp is the integer yyyymmdd; the value of   *)
(* the date dropdown is the text strftime('%Y-%m-%d') makes of it.         *)
(***************************************************************************)
\* the bank_info of main: every item a dict with a "cert"
MainCerts == <<
    "32541",
    "6560",
    "12368",
    "3511",
    "3510",
    "7213",
    "628",
    "6548",
    "6384",
    "9846",
    "33124",
    "32992",
    "18409",
    "4297",
    "639",
    "6672",
    "57957",
    "57803",
    "17534",
    "5649",
    "27314",
    "29950"
>>
MainBankInfo == [j \in 1..Len(MainCerts) |-> ByCert(MainCerts[j])]

CitibankCert == "7213"
CitibankName == "Citibank, National Association"

\* the list of create_dashboard the selectors and the details table are ordered by
metric_order == <<
    "Real Estate Loans to Tier 1 + ACL",
    "RE Construction and Land Development to Tier 1 + ACL",
    "Commercial RE to Tier 1 + ACL",
    "Non-Owner Occupied CRE 3-Year Growth Rate",
    "C&I Loans to Tier 1 + ACL",
    "Agriculture Loans to Tier 1 + ACL",
    "Credit Cards to Tier 1 + ACL",
    "Net Charge-Offs / Allowance for Credit Loss",
    "Net Charge-Offs / Total Loans & Leases",
    "Earnings Coverage of Net Loan Charge-Offs",
    "Loan and Lease Loss Provision to Net Charge-Offs",
    "Loss Allowance / Total Loans & Leases",
    "Loss Allowance to Noncurrent Loans and Leases",
    "Nonperforming Assets / Total Assets",
    "Assets Past Due 30-89 Days / Total Assets",
    "Assets Past Due 90+ Days / Total Assets",
    "Noncurrent Loans / Total Loans",
    "Net Loans and Leases to Deposits",
    "Net Loans and Leases to Assets",
    "Return on Assets",
    "Return on Equity",
    "Leverage (Core Capital) Ratio",
    "Total Risk-Based Capital Ratio",
    "Efficiency Ratio",
    "Earning Assets / Total Assets",
    "Net Interest Margin"
>> \o DollarFormatMetrics

\* bank_name_mapping: name of the institution, name on the dashboard
bank_name_mapping == <<
    <<"Flagstar Bank, National Association", "Flagstar Bank">>,
    <<"The Huntington National Bank", "The Huntington National Bank">>,
    <<"Regions Bank", "Regions Bank">>,
    <<"Wells Fargo Bank, National Association", "Wells Fargo">>,
    <<"Bank of America, National Association", "Bank of America">>,
    <<"Citibank, National Association", "Citibank">>,
    <<"JPMorgan Chase Bank, National Association", "JPMorgan Chase">>,
    <<"U.S. Bank National Association", "U.S. Bank">>,
    <<"PNC Bank, National Association", "PNC Bank">>,
    <<"Truist Bank", "Truist Bank">>,
    <<"Goldman Sachs Bank USA", "Goldman Sachs">>,
    <<"Morgan Stanley Bank, National Association", "Morgan Stanley">>,
    <<"TD Bank, National Association", "TD Bank">>,
    <<"Capital One, National Association", "Capital One">>,
    <<"The Bank of New York Mellon", "BNY Mellon">>,
    <<"Fifth Third Bank, National Association", "Fifth Third Bank">>,
    <<"Citizens Bank, National Association", "Citizens Bank">>,
    <<"Ally Bank", "Ally Bank">>,
    <<"KeyBank National Association", "KeyBank">>,
    <<"Discover Bank", "Discover Bank">>,
    <<"Synchrony Bank", "Synchrony Bank">>,
    <<"Santander Bank, N.A.", "Santander Bank">>
>>

bank_peers == <<
    "Bank of America",
    "Citibank",
    "JPMorgan Chase",
    "U.S. Bank",
    "PNC Bank",
    "Truist Bank",
    "Goldman Sachs",
    "Morgan Stanley",
    "TD Bank",
    "BNY Mellon",
    "Fifth Third Bank",
    "Citizens Bank",
    "KeyBank",
    "Santander Bank"
>>

\* df['Bank'].map(bank_name_mapping): a name the mapping lacks becomes NaN
MapBank(name) ==
    LET hits == {j \in 1..Len(bank_name_mapping) : bank_name_mapping[j][1] = name}
    IN  IF hits = {} THEN "nan" ELSE bank_name_mapping[CHOOSE j \in hits : TRUE][2]

\* date.strftime('%Y-%m-%d')
strftime(date) ==
    LET s == Dec(date)
    IN  SubSeq(s, 1, 4) \o <<"-">> \o SubSeq(s, 5, 6) \o <<"-">> \o SubSeq(s, 7, 8)

\* pd.to_datetime(selected_date) of a value of the date dropdown
to_pydatetime(value) ==
    DigitsVal(SubSeq(value, 1, 4) \o SubSeq(value, 6, 7) \o SubSeq(value, 9, 10))

\* sorted(df['Date'].unique())
RECURSIVE SortedDates(_)
SortedDates(dates) ==
    IF dates = {} THEN <<>>
    ELSE LET first == CHOOSE d \in dates : \A e \in dates : d <= e
         IN  <<first>> \o SortedDates(dates \ {first})

\* [metric for metric in metric_order if metric in df.columns]
available_metrics == SelectSeq(metric_order, LAMBDA metric : metric \in MetricNames)

\* what a callback returns into the Bank Details card, or the exception it raises
Prompt(text) ==
    [k |-> "P", text |-> text, exc |-> "", bank |-> "", date |-> 0, cells |-> <<>>]
Failure(exc) ==
    [k |-> "raise", text |-> "", exc |-> exc, bank |-> "", date |-> 0, cells |-> <<>>]
DetailsTable(bank, date, cells) ==
    [k |-> "Table", text |-> "", exc |-> "", bank |-> bank, date |-> date, cells |-> cells]

\* the clickData of the bar chart: None, or the point of the bar clicked
NoClick == [k |-> "None", x |-> ""]
Click(bank) == [k |-> "points", x |-> bank]

\* a column of which every value is None keeps its None objects; in any other
\* column the DataFrame holds NaN where a row had None
HoldsNone(df, col) == \A j \in 1..Len(df) : IsNone(df[j].m[col])

\* format_value(col, val): the format applied and the number it renders;
\* neither format accepts None
format_value(df, col, val) ==
    IF IsNone(val)
    THEN IF HoldsNone(df, col) THEN [raises |-> TRUE, format |-> "", val |-> val]
         ELSE [raises |-> FALSE, format |-> "nan", val |-> val]
    ELSE IF \E j \in 1..Len(DollarFormatMetrics) : DollarFormatMetrics[j] = col
         THEN [raises |-> FALSE, format |-> "$,.0f", val |-> val]
         ELSE [raises |-> FALSE, format |-> ".2f", val |-> val]

\* display_click_data(clickData, selected_date, selected_metric, selected_peers),
\* triggered_id the input that triggered the call
display_click_data(df, clickData, selected_date_value, selected_metric, selected_peers, triggered_id) ==
    LET selected_date == to_pydatetime(selected_date_value)
    IN  IF clickData = NoClick /\ triggered_id # "date-selector"
        THEN Prompt("Click on a bar to see details")
        ELSE IF triggered_id = "date-selector" /\ clickData = NoClick
        THEN Prompt("Select a date and click on a bar to see details")
        ELSE LET bank == clickData.x
                 selected_banks == <<"Flagstar Bank">> \o selected_peers
             IN  IF \A j \in 1..Len(selected_banks) : selected_banks[j] # bank
                 THEN Prompt("Selected bank is not in the current comparison.")
                 ELSE LET found == SelectSeq(df, LAMBDA row :
                                                 row.Bank = bank /\ row.Date = selected_date)
                      IN  \* .iloc[0] of a selection without rows
                          IF found = <<>> THEN Failure("IndexError")
                          ELSE LET bank_data == found[1]
                                   sorted_columns ==
                                       SelectSeq(metric_order,
                                                 LAMBDA col : col \in DOMAIN bank_data.m)
                                   cells ==
                                       [j \in 1..Len(sorted_columns) |->
                                           format_value(df, sorted_columns[j],
                                                        bank_data.m[sorted_columns[j]])]
                               IN  IF \E j \in 1..Len(cells) : cells[j].raises
                                   THEN Failure("TypeError")
                                   ELSE DetailsTable(bank, selected_date,
                                            [j \in 1..Len(cells) |->
                                                [col |-> sorted_columns[j],
                                                 text |-> [format |-> cells[j].format,
                                                           val |-> cells[j].val]]])

\* the bars update_bar_chart draws: the banks of filtered_df
Bars(df, selected_date_value, selected_peers) ==
    LET selected_date == to_pydatetime(selected_date_value)
        selected_banks == <<"Flagstar Bank">> \o selected_peers
    IN  {df[j].Bank : j \in {h \in 1..Len(df) :
                                /\ df[h].Date = selected_date
                                /\ \E b \in 1..Len(selected_banks) :
                                       selected_banks[b] = df[h].Bank}}

\* create_dashboard(df, ...): the table it keeps, the selectors at their
\* initial values, and the card as the first call of the callback leaves it
create_dashboard(rows) ==
    LET df == [j \in 1..Len(rows) |-> [rows[j] EXCEPT !.Bank = MapBank(@)]]
        unique_dates == SortedDates({rows[j].Date : j \in 1..Len(rows)})
        date == strftime(unique_dates[Len(unique_dates)])
    IN  [created |-> TRUE,
         df |-> df,
         unique_dates |-> unique_dates,
         metric |-> available_metrics[1],
         date |-> date,
         peers |-> bank_peers,
         clickData |-> NoClick,
         triggered |-> "",
         details |-> display_click_data(df, NoClick, date, available_metrics[1],
                                        bank_peers, "")]

\* the quarterly reports the dashboard is built on: Flagstar reports one
\* quarter or enough of them for a growth rate, Citibank the last quarters only
DashFlagstarLists ==
    {Quarterly(LookbackPeriods + 1, Filler, [rec |-> Grown, date |-> "quarter"]),
     <<Rec(Filler, QuarterEnd(LookbackPeriods + 1))>>}
DashPeerLists ==
    {<<>>,
     <<Rec(Filler, QuarterEnd(LookbackPeriods + 1))>>,
     <<Rec(Filler, QuarterEnd(LookbackPeriods)), Rec(Grown, QuarterEnd(LookbackPeriods + 1))>>}

DashServers ==
    {[institutions |-> <<Institution(FlagstarName, FlagstarCert),
                         Institution(CitibankName, CitibankCert)>>,
      financials |-> FinancialItems(FlagstarCert, fl) \o FinancialItems(CitibankCert, pl),
      down |-> {}] :
        fl \in DashFlagstarLists, pl \in DashPeerLists}

\* the metrics and the peer selections the model lets the user choose
DashMetrics ==
    {available_metrics[1], "Non-Owner Occupied CRE 3-Year Growth Rate", "Total Assets"}
DashPeers == {bank_peers, <<>>, <<"Citibank">>}

(***************************************************************************)
(* The state machine of the served dashboard: main has run, and the user   *)
(* clicks bars and changes the selectors.                                  *)
(***************************************************************************)
\* main(): fetch_data, calculate_metrics, create_dashboard
DashInit ==
    /\ api \in DashServers
    /\ LET dicts == FetchLoop(api, [institutions_data |-> <<>>, financials_data |-> <<>>],
                              MainBankInfo, api.down)
           metrics_df == calculate_metrics(dicts.financials_data)
       IN  /\ institutions_data = dicts.institutions_data
           /\ financials_data = dicts.financials_data
           /\ institutions_data # <<>>
           /\ ret = metrics_df
           /\ metrics_df.k = "DataFrame"
           /\ dashboard = create_dashboard(metrics_df.rows)
    /\ dollar_format_metrics = DollarFormatMetrics
    /\ metric_definitions = MetricDefinitions

\* the callback run on the inputs as an event leaves them
Displayed(inputs, triggered_id) ==
    [inputs EXCEPT !.triggered = triggered_id,
                   !.details = display_click_data(inputs.df, inputs.clickData, inputs.date,
                                                  inputs.metric, inputs.peers, triggered_id)]

\* a click on one of the bars the chart shows
ClickBar ==
    /\ dashboard.created
    /\ \E bank \in Bars(dashboard.df, dashboard.date, dashboard.peers) :
           dashboard' = Displayed([dashboard EXCEPT !.clickData = Click(bank)], "bar-chart")
    /\ UNCHANGED <<api, institutions_data, financials_data, dollar_format_metrics,
                   metric_definitions, ret>>

\* another option of the date dropdown
SelectDate ==
    /\ dashboard.created
    /\ \E j \in 1..Len(dashboard.unique_dates) :
           /\ strftime(dashboard.unique_dates[j]) # dashboard.date
           /\ dashboard' = Displayed([dashboard EXCEPT
                                          !.date = strftime(dashboard.unique_dates[j])],
                                     "date-selector")
    /\ UNCHANGED <<api, institutions_data, financials_data, dollar_format_metrics,
                   metric_definitions, ret>>

\* another option of the metric dropdown
SelectMetric ==
    /\ dashboard.created
    /\ \E metric \in DashMetrics :
           /\ metric # dashboard.metric
           /\ dashboard' = Displayed([dashboard EXCEPT !.metric = metric], "metric-selector")
    /\ UNCHANGED <<api, institutions_data, financials_data, dollar_format_metrics,
                   metric_definitions, ret>>

\* peers added to or removed from the peer dropdown
SelectPeers ==
    /\ dashboard.created
    /\ \E selected_peers \in DashPeers :
           /\ selected_peers # dashboard.peers
           /\ dashboard' = Displayed([dashboard EXCEPT !.peers = selected_peers],
                                     "individual-peer-selector")
    /\ UNCHANGED <<api, institutions_data, financials_data, dollar_format_metrics,
                   metric_definitions, ret>>

DashNext == ClickBar \/ SelectDate \/ SelectMetric \/ SelectPeers

DashSpec == DashInit /\ [][DashNext]_vars

(***************************************************************************)
(* Properties of the table calculate_metrics returns.                      *)
(***************************************************************************)
IsTable == ret.k = "DataFrame"

\* the rows of one bank, in the order of the table
RowsOf(bank) == SelectSeq(ret.rows, LAMBDA row : row.Bank = bank)
TableBanks == {ret.rows[j].Bank : j \in 1..Len(ret.rows)}
TableRows == {ret.rows[j] : j \in 1..Len(ret.rows)}

\* tier 1 capital plus allowance, less the CECL transition amount from 2019 on
ExpectedCecl(row) ==
    IF row.Date >= 20190101
    THEN FAdd(FSub(row.m["Common Equity Tier 1 Before Adjustments"],
                   row.m["Bank Equity Capital"]),
              row.m["Perpetual Preferred Stock"])
    ELSE F(0)

ExpectedBase(row) ==
    FSub(FAdd(row.m["Tier 1 (Core) Capital"], row.m["Allowance for Credit Loss"]),
         ExpectedCecl(row))

\* value is the given percentage of base
IsPercentOf(ratio, value, base) == FMul(ratio, base) = FMul(value, F(100))

CapitalInputs(row, ct1badj, eq, eqpp, tier1, acl) ==
    /\ row.m["Common Equity Tier 1 Before Adjustments"] = F(ct1badj)
    /\ row.m["Bank Equity Capital"] = F(eq)
    /\ row.m["Perpetual Preferred Stock"] = F(eqpp)
    /\ row.m["Tier 1 (Core) Capital"] = F(tier1)
    /\ row.m["Allowance for Credit Loss"] = F(acl)

\* C1: in every row, the CECL transition amount is ct1badj - eq + eqpp from
\* 2019-01-01 on and 0 before, and the denominator of the ratios is
\* tier1 + acl less that amount.
C1_CapitalBaseByDate ==
    IsTable =>
        \A row \in TableRows :
            /\ row.m["CECL Transition Amount"] = ExpectedCecl(row)
            /\ row.Date < 20190101 => row.m["CECL Transition Amount"] = F(0)
            /\ FGt(ExpectedBase(row), F(0)) =>
                   IsPercentOf(row.m["Real Estate Loans to Tier 1 + ACL"],
                               row.m["Real Estate Loans"], ExpectedBase(row))
            /\ ~FGt(ExpectedBase(row), F(0)) =>
                   row.m["Real Estate Loans to Tier 1 + ACL"] = F(0)

\* the example of C1: the same inputs on 2018-12-31 and on 2019-01-01
C1_Witness ==
    /\ IsTable
    /\ \E before, from \in TableRows :
           /\ before.Date = 20181231 /\ from.Date = 20190101
           /\ CapitalInputs(before, 100, 90, 5, 80, 10)
           /\ CapitalInputs(from, 100, 90, 5, 80, 10)
           /\ before.m["CECL Transition Amount"] = F(0)
           /\ from.m["CECL Transition Amount"] = F(15)
           /\ IsPercentOf(before.m["Real Estate Loans to Tier 1 + ACL"],
                          before.m["Real Estate Loans"], F(90))
           /\ IsPercentOf(from.m["Real Estate Loans to Tier 1 + ACL"],
                          from.m["Real Estate Loans"], F(75))
           /\ from.m["Real Estate Loans"] # F(0)

\* LNRECONS + LNREMULT + LNRENROT + LNCOMRE of a row
NonOwnerCre(row) ==
    FAdd(FAdd(FAdd(row.m["RE Construction and Land Development"], row.m["Multifamily"]),
              row.m["Non-OOC Nonresidential Properties Loans"]),
         row.m["Commercial Real Estate Loans not Secured by Real Estate"])

Growth(row) == row.m["Non-Owner Occupied CRE 3-Year Growth Rate"]

\* C2: a row at index i >= 12 of its bank whose row i-12 has old > 0 has the
\* growth rate (cur / old - 1) * 100.
C2_GrowthRate ==
    IsTable =>
        \A bank \in TableBanks :
            LET rows == RowsOf(bank)
            IN  \A j \in 1..Len(rows) :
                    (j > 12 /\ FGt(NonOwnerCre(rows[j - 12]), F(0))) =>
                        Growth(rows[j]) =
                            FMul(FSub(FDiv(NonOwnerCre(rows[j]), NonOwnerCre(rows[j - 12])),
                                      F(1)), F(100))

\* the example of C2: 100 at index 0 and 150 at index 12 give 50
C2_Witness ==
    /\ IsTable
    /\ \E bank \in TableBanks :
           LET rows == RowsOf(bank)
           IN  /\ Len(rows) >= 13
               /\ NonOwnerCre(rows[1]) = F(100)
               /\ NonOwnerCre(rows[13]) = F(150)
               /\ Growth(rows[13]) = F(50)

\* C3: a row at an index below 12 of its own bank has no growth rate,
\* however many rows the other banks have.
C3_NoGrowthBeforeTwelve ==
    IsTable =>
        \A bank \in TableBanks :
            LET rows == RowsOf(bank)
            IN  \A j \in 1..Len(rows) : j <= 12 => IsNone(Growth(rows[j]))

\* a bank with 12 records, a value to grow from in each, next to a bank
\* with more; and a bank of one record after a bank that has a growth rate
C3_Witness ==
    /\ IsTable
    /\ \E short, long \in TableBanks :
           /\ Len(RowsOf(short)) <= 12
           /\ Len(RowsOf(long)) > 12
           /\ \E j \in 1..Len(RowsOf(long)) : ~IsNone(Growth(RowsOf(long)[j]))
           /\ FGt(NonOwnerCre(RowsOf(short)[1]), F(0))
           /\ financials_data[1].key = long

\* C4: a row at index i >= 12 whose row i-12 has old <= 0 has no growth rate.
C4_NoGrowthFromNothing ==
    IsTable =>
        \A bank \in TableBanks :
            LET rows == RowsOf(bank)
            IN  \A j \in 1..Len(rows) :
                    (j > 12 /\ ~FGt(NonOwnerCre(rows[j - 12]), F(0))) =>
                        IsNone(Growth(rows[j]))

\* a negative old value under a positive current one
C4_Witness ==
    /\ IsTable
    /\ \E bank \in TableBanks :
           LET rows == RowsOf(bank)
           IN  /\ Len(rows) >= 13
               /\ FGt(F(0), NonOwnerCre(rows[1]))
               /\ FGt(NonOwnerCre(rows[13]), F(0))
               /\ IsNone(Growth(rows[13]))

\* the same with nothing reported three years before
C4_WitnessMissing ==
    /\ IsTable
    /\ \E bank \in TableBanks :
           LET rows == RowsOf(bank)
           IN  /\ Len(rows) >= 13
               /\ NonOwnerCre(rows[1]) = F(0)
               /\ FGt(NonOwnerCre(rows[13]), F(0))
               /\ IsNone(Growth(rows[13]))

\* C5: with a capital base > 0, each of the five category ratios is
\* (category / capital base) * 100.
C5_CategoryRatios ==
    IsTable =>
        \A row \in TableRows :
            FGt(ExpectedBase(row), F(0)) =>
                LET pct(value) == FMul(FDiv(value, ExpectedBase(row)), F(100))
                IN  /\ row.m["Real Estate Loans to Tier 1 + ACL"]
                           = pct(row.m["Real Estate Loans"])
                    /\ row.m["RE Construction and Land Development to Tier 1 + ACL"]
                           = pct(row.m["RE Construction and Land Development"])
                    /\ row.m["C&I Loans to Tier 1 + ACL"]
                           = pct(row.m["Commercial and Industrial Loans"])
                    /\ row.m["Agriculture Loans to Tier 1 + ACL"]
                           = pct(row.m["Agriculture Loans"])
                    /\ row.m["Credit Cards to Tier 1 + ACL"]
                           = pct(row.m["Credit Cards"])

\* a row from 2019 on with a positive capital base and five different ratios
C5_Witness ==
    /\ IsTable
    /\ \E row \in TableRows :
           /\ row.Date >= 20190101
           /\ ExpectedCecl(row) # F(0)
           /\ FGt(ExpectedBase(row), F(0))
           /\ Cardinality({row.m[r] : r \in CategoryRatioNames}) = 5
           /\ row.m["Agriculture Loans to Tier 1 + ACL"] # F(0)

\* C6: with a capital base > 0, the commercial RE ratio is
\* (LNRECONS + LNREMULT + LNRENRES + LNCOMRE) / capital base * 100.
C6_CommercialRe ==
    IsTable =>
        \A row \in TableRows :
            FGt(ExpectedBase(row), F(0)) =>
                row.m["Commercial RE to Tier 1 + ACL"] =
                    FMul(FDiv(FAdd(FAdd(FAdd(row.m["RE Construction and Land Development"],
                                             row.m["Multifamily"]),
                                        row.m["Loans to Nonresidential Properties"]),
                                   row.m["Commercial Real Estate Loans not Secured by Real Estate"]),
                              ExpectedBase(row)),
                         F(100))

\* a row whose nonresidential loans differ from their non-owner-occupied part
C6_Witness ==
    /\ IsTable
    /\ \E row \in TableRows :
           /\ FGt(ExpectedBase(row), F(0))
           /\ row.m["Loans to Nonresidential Properties"]
                  # row.m["Non-OOC Nonresidential Properties Loans"]
           /\ row.m["Commercial RE to Tier 1 + ACL"] # F(0)

SixRatios ==
    {"Real Estate Loans to Tier 1 + ACL",
     "RE Construction and Land Development to Tier 1 + ACL",
     "C&I Loans to Tier 1 + ACL",
     "Agriculture Loans to Tier 1 + ACL",
     "Credit Cards to Tier 1 + ACL",
     "Commercial RE to Tier 1 + ACL"}

\* C7: with a capital base <= 0, the six ratios are 0.
C7_ZeroDenominator ==
    IsTable =>
        \A row \in TableRows :
            ~FGt(ExpectedBase(row), F(0)) =>
                \A r \in SixRatios : row.m[r] = F(0)

\* a negative capital base under loans that are there, and a row with no
\* capital field at all
C7_Witness ==
    /\ IsTable
    /\ \E row, blank \in TableRows :
           /\ FGt(F(0), ExpectedBase(row))
           /\ FGt(row.m["Real Estate Loans"], F(0))
           /\ \A r \in SixRatios : row.m[r] = F(0)
           /\ CapitalInputs(blank, 0, 0, 0, 0, 0)
           /\ \A r \in SixRatios : blank.m[r] = F(0)

ChargeOffs(row) == row.m["Net Charge-Offs / Allowance for Credit Loss"]

\* C8: the charge-off ratio is quarterly net charge-offs / allowance * 100
\* when the allowance is > 0, else 0.
C8_ChargeOffRatio ==
    IsTable =>
        \A row \in TableRows :
            LET acl == row.m["Allowance for Credit Loss"]
                nco == row.m["Total Loans and Leases Net Charge-Offs Quarterly"]
            IN  IF FGt(acl, F(0))
                THEN ChargeOffs(row) = FMul(FDiv(nco, acl), F(100))
                ELSE ChargeOffs(row) = F(0)

\* the example of C8 (acl = 50, nco = 5), beside a negative allowance
C8_Witness ==
    /\ IsTable
    /\ \E row, neg \in TableRows :
           /\ row.m["Allowance for Credit Loss"] = F(50)
           /\ row.m["Total Loans and Leases Net Charge-Offs Quarterly"] = F(5)
           /\ ChargeOffs(row) = F(10)
           /\ FGt(F(0), neg.m["Allowance for Credit Loss"])
           /\ neg.m["Total Loans and Leases Net Charge-Offs Quarterly"] # F(0)
           /\ ChargeOffs(neg) = F(0)

\* an allowance of zero
C8_WitnessZero ==
    /\ IsTable
    /\ \E row \in TableRows :
           /\ row.m["Allowance for Credit Loss"] = F(0)
           /\ row.m["Total Loans and Leases Net Charge-Offs Quarterly"] # F(0)
           /\ ChargeOffs(row) = F(0)

(***************************************************************************)
(* Properties of calculate_metrics on records with missing or malformed    *)
(* fields.                                                                 *)
(***************************************************************************)
HasReturned == ret.k # "None"

\* every period record held, with the name of its bank
Records ==
    UNION {{[bank |-> financials_data[b].key, financial |-> financials_data[b].value[j]] :
                j \in 1..Len(financials_data[b].value)} : b \in 1..Len(financials_data)}

RECURSIVE CountRecords(_)
CountRecords(dict) ==
    IF dict = <<>> THEN 0 ELSE Len(dict[1].value) + CountRecords(Tail(dict))

RecordCount == CountRecords(financials_data)

\* C9: whatever is missing or malformed in the records, calculate_metrics
\* raises nothing and returns a table with one row for each record.
C9_Totality ==
    (HasReturned /\ RecordCount > 0) =>
        (IsTable /\ Len(ret.rows) = RecordCount)

\* what the coercion policy makes of a raw value: the parsed number, and 0.0
\* for null, a missing key, and anything that is not a number
PolicyFloat(value) ==
    CASE value.k = "num" -> F(value.i)
      [] value.k = "str" /\ ~FloatStrFails(value.s) -> FloatStr(value.s)
      [] OTHER -> F(0)

WellDated(financial) ==
    "REPDTE" \in DOMAIN financial /\ DateStrOK(financial["REPDTE"].s)

\* the records, every absent field code sent as the number 0
ZeroFilled(dict) ==
    [b \in 1..Len(dict) |->
        [key |-> dict[b].key,
         value |-> [j \in 1..Len(dict[b].value) |->
                      LET financial == dict[b].value[j]
                      IN  [c \in DOMAIN financial \cup FieldCodes |->
                              IF c \in DOMAIN financial THEN financial[c] ELSE Num(0)]]]]

\* C10: every base metric of a row is the coerced value of its field (0.0 for
\* null, missing, non-numeric and unparseable values, the parsed float
\* otherwise), and a record with a field absent gives the same result as the
\* record with that field 0.
C10_SafeFloatPolicy ==
    (HasReturned /\ RecordCount > 0 /\ \A x \in Records : WellDated(x.financial)) =>
        /\ IsTable
        /\ \A x \in Records :
               \E row \in TableRows :
                   /\ row.Bank = x.bank
                   /\ row.Date = to_datetime(x.financial["REPDTE"].s)
                   /\ \A name \in BaseNames :
                          row.m[name] = PolicyFloat(Get(x.financial, CodeOf[name]))
        /\ ret = calculate_metrics(ZeroFilled(financials_data))

\* C10, the part the code keeps: when calculate_metrics returns a table, its
\* base metrics follow the coercion policy, and absent fields count as 0.
C10_PolicyWhenReturned ==
    IsTable =>
        /\ \A x \in Records :
               \E row \in TableRows :
                   /\ row.Bank = x.bank
                   /\ row.Date = to_datetime(x.financial["REPDTE"].s)
                   /\ \A name \in BaseNames :
                          row.m[name] = PolicyFloat(Get(x.financial, CodeOf[name]))
        /\ ret = calculate_metrics(ZeroFilled(financials_data))

(***************************************************************************)
(* Properties of the table as a whole: banks without records, order,       *)
(* uniqueness, one row per record.                                         *)
(***************************************************************************)
\* a record that no step of calculate_metrics rejects
Clean(financial) ==
    WellDated(financial) /\ \A c \in DOMAIN financial : financial[c].k # "obj"

\* the banks held, and the record list of one
Banks == {financials_data[b].key : b \in 1..Len(financials_data)}
ListOf(bank) ==
    financials_data[CHOOSE b \in 1..Len(financials_data) : financials_data[b].key = bank].value

\* C11: a bank with no records contributes no rows and raises nothing, also
\* when no bank has a record or no bank is held at all: calculate_metrics
\* then returns an empty table.
C11_EmptyBank ==
    (HasReturned /\ \A x \in Records : Clean(x.financial)) =>
        /\ IsTable
        /\ \A bank \in Banks : ListOf(bank) = <<>> => RowsOf(bank) = <<>>

\* C11, the part the code keeps: beside a bank that has records, a bank
\* without records adds no rows and raises nothing.
C11_EmptyBesideOthers ==
    (HasReturned /\ RecordCount > 0 /\ \A x \in Records : Clean(x.financial)) =>
        /\ IsTable
        /\ \A bank \in Banks : ListOf(bank) = <<>> => RowsOf(bank) = <<>>

C11_WitnessBesideOthers ==
    /\ IsTable
    /\ \E bank \in Banks : ListOf(bank) = <<>>

\* C12: whatever the order of the banks in financials_data and of the records
\* in each list, the rows of the returned table ascend by Date.
C12_SortedByDate ==
    IsTable =>
        \A j, k \in 1..Len(ret.rows) : j < k => ret.rows[j].Date <= ret.rows[k].Date

\* a list sent newest first, in a dict whose first bank reports later dates
\* than its last
C12_Witness ==
    /\ IsTable
    /\ Len(financials_data) = 2
    /\ Len(financials_data[1].value) > LookbackPeriods
    /\ Len(financials_data[2].value) > 0
    /\ LexLess(Codes(financials_data[1].value[2]["REPDTE"].s),
               Codes(financials_data[1].value[1]["REPDTE"].s))
    /\ LexLess(Codes(financials_data[2].value[1]["REPDTE"].s),
               Codes(financials_data[1].value[1]["REPDTE"].s))

\* no REPDTE value occurs twice in the list
DistinctDates(financials) ==
    \A j, k \in 1..Len(financials) :
        j # k => Get(financials[j], "REPDTE") # Get(financials[k], "REPDTE")

\* no (Bank, Date) pair occurs twice in the table
UniqueRows ==
    \A j, k \in 1..Len(ret.rows) :
        j # k => <<ret.rows[j].Bank, ret.rows[j].Date>> # <<ret.rows[k].Bank, ret.rows[k].Date>>

\* C13: when no bank's list holds two records with the same REPDTE, no two
\* rows of the table have the same (Bank, Date) pair.
C13_UniqueWhenInputUnique ==
    (IsTable /\ \A bank \in Banks : DistinctDates(ListOf(bank))) => UniqueRows

\* two banks that report the same date, one of them over more than three years
C13_Witness ==
    /\ IsTable
    /\ \A bank \in Banks : DistinctDates(ListOf(bank))
    /\ \E j, k \in 1..Len(ret.rows) :
           ret.rows[j].Date = ret.rows[k].Date /\ ret.rows[j].Bank # ret.rows[k].Bank
    /\ \E bank \in TableBanks : Len(RowsOf(bank)) > LookbackPeriods

\* C14: for every input calculate_metrics accepts, no two rows of the table
\* have the same (Bank, Date) pair.
C14_UniqueRows == IsTable => UniqueRows

\* the Timestamp of a record's REPDTE, -1 when it has none
DateOf(financial) ==
    IF WellDated(financial) THEN to_datetime(financial["REPDTE"].s) ELSE -1

\* the Timestamps that occur, in the records and in the table
AllDates ==
    {DateOf(x.financial) : x \in Records} \cup {row.Date : row \in TableRows}

\* bank by bank, as many rows as records, and date by date as many rows of
\* the date as records of the date
RowPerRecord ==
    /\ TableBanks \subseteq Banks
    /\ \A bank \in Banks :
           /\ Len(RowsOf(bank)) = Len(ListOf(bank))
           /\ \A d \in AllDates :
                  Len(SelectSeq(RowsOf(bank), LAMBDA row : row.Date = d))
                      = Len(SelectSeq(ListOf(bank), LAMBDA f : DateOf(f) = d))

\* C15: calculate_metrics emits one row for each record: each bank has as
\* many rows as records, their Dates are the REPDTE values of its records
\* counted with multiplicity, and no bank has a row for a date it did not
\* report.
C15_OneRowPerRecord == HasReturned => RowPerRecord

\* C15, the part the code keeps: a table that is returned has one row for
\* each record.
C15_OneRowWhenReturned == IsTable => RowPerRecord

\* a date one bank reports and the other does not, and a date reported twice
C15_WitnessWhenReturned ==
    /\ IsTable
    /\ Cardinality(TableBanks) = 2
    /\ \E row \in TableRows : \A other \in TableRows : other.Bank # row.Bank => other.Date # row.Date
    /\ ~UniqueRows

(***************************************************************************)
(* Bank independence.                                                      *)
(***************************************************************************)
\* the rows of one bank in a result of calculate_metrics
RowsIn(result, bank) == SelectSeq(result.rows, LAMBDA row : row.Bank = bank)

\* what calculate_metrics produces when the bank is the only one held
Alone(bank) == calculate_metrics(<<[key |-> bank, value |-> ListOf(bank)]>>)

\* C16: the rows produced for a bank, growth rate included, are those
\* produced for the same record list when no other bank is held: they do
\* not depend on the records of the other banks.
C16_BankIndependence ==
    HasReturned =>
        \A bank \in Banks : RowsIn(ret, bank) = RowsIn(Alone(bank), bank)

\* C16, the part the code keeps: in a table that is returned, the rows of a
\* bank are those computed from its own list alone, so the row twelve places
\* back is a row of the same bank.
C16_IndependentWhenReturned ==
    IsTable =>
        \A bank \in Banks : RowsIn(ret, bank) = RowsIn(Alone(bank), bank)

\* two banks in the table, one with a growth rate
C16_WitnessWhenReturned ==
    /\ IsTable
    /\ Cardinality(TableBanks) = 2
    /\ \E row \in TableRows : ~IsNone(Growth(row))

(***************************************************************************)
(* What a call of calculate_metrics leaves alone, and the catalog.         *)
(***************************************************************************)
\* a step that ends with a call of calculate_metrics having returned or raised
CallStep == ret'.k # "None"

\* C17: a call of calculate_metrics leaves financials_data (the order of
\* each list included), institutions_data, dollar_format_metrics and
\* metric_definitions as they were, and a call that follows a call with no
\* fetch_data in between gives the same result.
C17_Pure ==
    [][CallStep =>
          /\ financials_data' = financials_data
          /\ institutions_data' = institutions_data
          /\ dollar_format_metrics' = dollar_format_metrics
          /\ metric_definitions' = metric_definitions
          /\ (ret.k # "None" => ret' = ret)]_vars

\* a table computed from a list that was fetched newest first
C17_Witness ==
    /\ IsTable
    /\ \E bank \in Banks :
           /\ Len(ListOf(bank)) > LookbackPeriods
           /\ DateOf(ListOf(bank)[1]) > DateOf(ListOf(bank)[2])

\* the names of dollar_format_metrics
DollarNames == {dollar_format_metrics[j] : j \in 1..Len(dollar_format_metrics)}

\* the classifications that mark a ratio or a percentage
RatioClasses == {"(%)", "(YTD, %)", "(Qtly, %)", "(X)"}

\* C18: every metric column of a row has an entry in metric_definitions,
\* every name of dollar_format_metrics is a column of every row, and the
\* columns that are not in dollar_format_metrics are defined as ratios or
\* percentages.
C18_CatalogComplete ==
    IsTable =>
        \A row \in TableRows :
            /\ DOMAIN row.m \subseteq DOMAIN metric_definitions
            /\ DollarNames \subseteq DOMAIN row.m
            /\ \A name \in DOMAIN row.m \ DollarNames :
                   metric_definitions[name] \in RatioClasses

\* rows from before and from after 2019-01-01, with the derived columns
C18_Witness ==
    /\ IsTable
    /\ \E row \in TableRows : row.Date < CeclStart
    /\ \E row \in TableRows :
           /\ row.Date >= CeclStart
           /\ ~IsNone(Growth(row))
           /\ row.m["CECL Transition Amount"] # F(0)

(***************************************************************************)
(* The metrics against the definitions metric_definitions shows for them.  *)
(***************************************************************************)
\* 'Tier 1 (Core) Capital' plus 'Allowance for Credit Loss'
Tier1PlusAcl(row) ==
    FAdd(row.m["Tier 1 (Core) Capital"], row.m["Allowance for Credit Loss"])

\* the loan category the definition of a ratio names
DefinedCategory(row, name) ==
    CASE name = "Real Estate Loans to Tier 1 + ACL" -> row.m["Real Estate Loans"]
      [] name = "RE Construction and Land Development to Tier 1 + ACL" ->
             row.m["RE Construction and Land Development"]
      [] name = "C&I Loans to Tier 1 + ACL" -> row.m["Commercial and Industrial Loans"]
      [] name = "Agriculture Loans to Tier 1 + ACL" -> row.m["Agriculture Loans"]
      [] name = "Credit Cards to Tier 1 + ACL" -> row.m["Credit Cards"]
      [] name = "Commercial RE to Tier 1 + ACL" ->
             FAdd(FAdd(FAdd(row.m["RE Construction and Land Development"],
                            row.m["Multifamily"]),
                       row.m["Loans to Nonresidential Properties"]),
                  row.m["Commercial Real Estate Loans not Secured by Real Estate"])

\* C19: in every row, whatever its date, each of the six '... to Tier 1 + ACL'
\* metrics that is not 0 is its loan category as a percentage of Tier 1
\* (Core) Capital plus Allowance for Credit Loss.
C19_PercentOfTier1PlusAcl ==
    IsTable =>
        \A row \in TableRows : \A name \in SixRatios :
            row.m[name] # F(0) =>
                IsPercentOf(row.m[name], DefinedCategory(row, name), Tier1PlusAcl(row))

\* C19, the part the code keeps: the rows whose CECL transition amount is 0,
\* those before 2019-01-01 among them.
C19_WithoutTransition ==
    IsTable =>
        \A row \in TableRows : \A name \in SixRatios :
            (row.m[name] # F(0) /\ row.m["CECL Transition Amount"] = F(0)) =>
                IsPercentOf(row.m[name], DefinedCategory(row, name), Tier1PlusAcl(row))

\* the third power
Cube(x) == FMul(FMul(x, x), x)

\* C20: the growth rate of a row whose value twelve periods earlier is
\* old > 0 is the yearly rate r that compounds to the change over the three
\* years: (1 + r/100)^3 = cur/old.
C20_Annualized ==
    IsTable =>
        \A bank \in TableBanks :
            LET rows == RowsOf(bank)
            IN  \A j \in 1..Len(rows) :
                    (j > 12 /\ FGt(NonOwnerCre(rows[j - 12]), F(0))) =>
                        /\ ~IsNone(Growth(rows[j]))
                        /\ Cube(FAdd(F(1), FDiv(Growth(rows[j]), F(100))))
                               = FDiv(NonOwnerCre(rows[j]), NonOwnerCre(rows[j - 12]))

(***************************************************************************)
(* The lookback by position, and the order of the input.                   *)
(***************************************************************************)
\* the growth rate of a row from the row it is compared with
GrowthFrom(old_row, row) ==
    IF FGt(NonOwnerCre(old_row), F(0))
    THEN FMul(FSub(FDiv(NonOwnerCre(row), NonOwnerCre(old_row)), F(1)), F(100))
    ELSE NoneValue

\* C21: the lookback is by position: the row at position i >= 12 of a bank's
\* rows in date order is compared with the row at position i - 12, whatever
\* the dates of the two, and a row at a position below 12 has no growth rate,
\* also when the bank's rows before it reach back three years or more.
C21_LookbackByIndex ==
    IsTable =>
        \A bank \in TableBanks :
            LET rows == RowsOf(bank)
            IN  \A j \in 1..Len(rows) :
                    IF j > 12
                    THEN Growth(rows[j]) = GrowthFrom(rows[j - 12], rows[j])
                    ELSE IsNone(Growth(rows[j]))

\* a bank that skipped a quarter: its thirteenth row is compared with its
\* first, though the row dated three years before it is its second, which
\* holds other numbers
C21_Witness ==
    /\ IsTable
    /\ \E bank \in TableBanks :
           LET rows == RowsOf(bank)
           IN  /\ Len(rows) = 13
               /\ rows[13].Date - 30000 = rows[2].Date
               /\ rows[13].Date - 30000 > rows[1].Date
               /\ NonOwnerCre(rows[1]) # NonOwnerCre(rows[2])
               /\ Growth(rows[13]) # GrowthFrom(rows[2], rows[13])

\* twelve rows that span three years: no growth rate on any
C21_WitnessShort ==
    /\ IsTable
    /\ \E bank \in TableBanks :
           LET rows == RowsOf(bank)
           IN  /\ Len(rows) = 12
               /\ rows[12].Date - 30000 = rows[1].Date
               /\ FGt(NonOwnerCre(rows[1]), F(0))
               /\ \A j \in 1..12 : IsNone(Growth(rows[j]))

\* two rearrangements of a list that together generate every permutation
PermKinds == {"swap", "rotate"}
Permute(kind, list) ==
    CASE Len(list) < 2 -> list
      [] kind = "swap" -> <<list[2], list[1]>> \o SubSeq(list, 3, Len(list))
      [] kind = "rotate" -> Tail(list) \o <<list[1]>>

\* financials_data with every list rearranged
Permuted(kind) ==
    [b \in 1..Len(financials_data) |->
        [financials_data[b] EXCEPT !.value = Permute(kind, @)]]

RowSet(result) == {result.rows[j] : j \in 1..Len(result.rows)}

\* C22: when the REPDTE values of each list are pairwise distinct, the rows
\* calculate_metrics produces, growth rate included, are the same set for
\* the lists as held and for the lists rearranged.
C22_OrderIndependent ==
    (HasReturned /\ \A bank \in Banks : DistinctDates(ListOf(bank))) =>
        \A kind \in PermKinds :
            LET other == calculate_metrics(Permuted(kind))
            IN  other.k = ret.k /\ RowSet(other) = RowSet(ret)

\* a list of thirteen or more records held newest first, with a growth rate
C22_Witness ==
    /\ IsTable
    /\ \A bank \in Banks : DistinctDates(ListOf(bank))
    /\ \E bank \in Banks :
           /\ Len(ListOf(bank)) > LookbackPeriods
           /\ DateOf(ListOf(bank)[1]) > DateOf(ListOf(bank)[Len(ListOf(bank))])
           /\ \E row \in TableRows : row.Bank = bank /\ ~IsNone(Growth(row))

\* C23: in every row, every metric other than 'Non-Owner Occupied CRE 3-Year
\* Growth Rate' holds a number, whatever fields the record lacks.
C23_OnlyGrowthNull ==
    IsTable =>
        \A row \in TableRows :
            \A name \in DOMAIN row.m \ {"Non-Owner Occupied CRE 3-Year Growth Rate"} :
                ~IsNone(row.m[name])

\* the row of a record with no field but its date, before 2019, without a
\* growth rate, beside rows that have one
C23_Witness ==
    /\ IsTable
    /\ \E x \in Records :
           /\ DOMAIN x.financial = {"REPDTE"}
           /\ DateOf(x.financial) < CeclStart
           /\ \E row \in TableRows :
                  /\ row.Bank = x.bank
                  /\ row.Date = DateOf(x.financial)
                  /\ IsNone(Growth(row))
    /\ \E row \in TableRows : ~IsNone(Growth(row))

(***************************************************************************)
(* Properties of fetch_data.                                               *)
(***************************************************************************)
\* the value a dict holds for a key it has
Entry(dict, key) == dict[CHOOSE j \in 1..Len(dict) : dict[j].key = key].value

\* the records a financials request for the cert returns when it is answered
Served(server, cert) ==
    LET items == SelectSeq(server.financials,
                           LAMBDA item : item.cert = cert /\ item.isDict /\ item.hasData)
    IN  [j \in 1..Len(items) |-> items[j].data]

\* C24 as stated: after every call, the list held for a NAME is the list held
\* before, or the records of a financials request for it that was answered;
\* a request that fails leaves the records of the last answered one in place
\* (a NAME held for the first time starts with them or with none).
C24_LastSuccessful ==
    [][\A j \in 1..Len(financials_data') :
          LET name == financials_data'[j].key
              list == financials_data'[j].value
          IN  \/ name \in Keys(financials_data) /\ list = Entry(financials_data, name)
              \/ list = Served(api, Entry(institutions_data', name).CERT)
              \/ name \notin Keys(financials_data) /\ list = <<>>]_vars

\* C24, amended: after every call, the list held for a NAME is the list held
\* before, or exactly the response of the financials request made for it in
\* the call: the records the server returned, and no record when the request
\* failed.  A list is replaced, never extended.
C24_LastRequest ==
    [][\A j \in 1..Len(financials_data') :
          LET name == financials_data'[j].key
              list == financials_data'[j].value
              cert == Entry(institutions_data', name).CERT
          IN  \/ name \in Keys(financials_data) /\ list = Entry(financials_data, name)
              \/ <<"financials", cert>> \notin api.down /\ list = Served(api, cert)
              \/ <<"financials", cert>> \in api.down /\ list = <<>>]_vars

\* the server holds two quarters for a bank and the analyzer holds both, once
\* each, and holds no record for a bank that has one, after a failed request
C24_Witness ==
    /\ Len(financials_data) = 2
    /\ \E name \in Banks :
           /\ Len(Served(api, Entry(institutions_data, name).CERT)) = 2
           /\ ListOf(name) = Served(api, Entry(institutions_data, name).CERT)
    /\ \E name \in Banks :
           /\ Served(api, Entry(institutions_data, name).CERT) # <<>>
           /\ <<"financials", Entry(institutions_data, name).CERT>> \in api.down
           /\ ListOf(name) = <<>>

\* C25: after every sequence of calls of fetch_data, whichever requests were
\* answered, answered with nothing or failed, financials_data and
\* institutions_data have the same keys.
C25_SameKeys == Keys(financials_data) = Keys(institutions_data)

\* two banks held, one of them with no record because its financials request
\* failed, while institutions requests fail as well
C25_Witness ==
    /\ Len(institutions_data) = 2
    /\ \E request \in api.down : request[1] = "institutions"
    /\ \E j \in 1..Len(institutions_data) :
           /\ <<"financials", institutions_data[j].value.CERT>> \in api.down
           /\ Served(api, institutions_data[j].value.CERT) # <<>>
           /\ Entry(financials_data, institutions_data[j].key) = <<>>

\* the institutions the server would return for a bank item
Matching(server, bank_item) ==
    SelectSeq(server.institutions,
              LAMBDA item : IF bank_item.k = "str" THEN item.data.NAME = bank_item.v
                            ELSE item.data.CERT = bank_item.v)

\* a bank item of the wrong type, or whose institutions request fails, finds
\* nothing, or finds a result without 'data', 'NAME' or 'CERT'
Fails(server, bank_item) ==
    \/ bank_item.k \notin {"str", "dict"}
    \/ <<"institutions", [by |-> IF bank_item.k = "str" THEN "NAME" ELSE "CERT",
                          value |-> bank_item.v]>> \in server.down
    \/ Matching(server, bank_item) = <<>>
    \/ LET bank == Matching(server, bank_item)[1]
       IN  ~(bank.isDict /\ bank.hasData /\ bank.hasName /\ bank.hasCert)

\* the two dicts as held
Held == [institutions_data |-> institutions_data, financials_data |-> financials_data]

\* C26: a bank item that fails changes neither dict, and a call of fetch_data
\* leaves the dicts as the call without the failing items does.
C26_FailingItemSkipped ==
    \A bank_info \in BankInfos :
        /\ \A j \in 1..Len(bank_info) :
               Fails(api, bank_info[j]) =>
                   FetchItem(api, Held, bank_info[j], api.down) = Held
        /\ FetchLoop(api, Held, bank_info, api.down)
               = FetchLoop(api, Held,
                           SelectSeq(bank_info, LAMBDA item : ~Fails(api, item)),
                           api.down)

\* the dicts are those a call leaves that met a failing item before an item
\* that succeeded
C26_Witness ==
    /\ financials_data # <<>>
    /\ \E bank_info \in BankInfos :
           /\ \E j, k \in 1..Len(bank_info) :
                  j < k /\ Fails(api, bank_info[j]) /\ ~Fails(api, bank_info[k])
           /\ Held = FetchLoop(api, [institutions_data |-> <<>>, financials_data |-> <<>>],
                               bank_info, api.down)

(***************************************************************************)
(* The Bank Details card.                                                  *)
(***************************************************************************)
\* the call of display_click_data the state shows got as far as the row lookup:
\* a bar has been clicked, and its bank is Flagstar Bank or a selected peer
ReachesLookup ==
    /\ dashboard.created
    /\ dashboard.clickData # NoClick
    /\ \/ dashboard.clickData.x = "Flagstar Bank"
       \/ \E j \in 1..Len(dashboard.peers) : dashboard.peers[j] = dashboard.clickData.x

\* the table of the dashboard has a row of the clicked bank at the selected date
ClickedRowExists ==
    \E j \in 1..Len(dashboard.df) :
        /\ dashboard.df[j].Bank = dashboard.clickData.x
        /\ dashboard.df[j].Date = to_pydatetime(dashboard.date)

\* C27: after every sequence of bar clicks and of date, metric and peer
\* selections, display_click_data has returned a prompt or a details table and
\* has not failed: where it reaches the row lookup, the table has a row of the
\* clicked bank at the selected date.
C27_LookupFindsRow ==
    /\ ReachesLookup => ClickedRowExists
    /\ dashboard.created /\ dashboard.details.k = "raise" => dashboard.details.exc # "IndexError"

\* the lookup fails exactly where it is reached without such a row
C27_FailsWhereNoRow ==
    dashboard.created =>
        (dashboard.details = Failure("IndexError") <=> ReachesLookup /\ ~ClickedRowExists)

\* a clicked bank, then a date on which it reported nothing
C27_DateChangedAfterClick ==
    /\ ReachesLookup
    /\ dashboard.triggered = "date-selector"
    /\ ~ClickedRowExists

====
